---- MODULE Spec2Model ----
(***************************************************************************)
(* Policy-chain request pipeline, receive retry and token cache of the     *)
(* Azure SDK for Rust:                                                     *)
(*   sdk/core/azure_core/src/http/pipeline.rs                              *)
(*   sdk/eventhubs/azure_messaging_eventhubs/src/common/recoverable/       *)
(*       receiver.rs                                                       *)
(*   sdk/identity/azure_identity/src/client_certificate_credential.rs     *)
(*   sdk/storage/azure_storage_queue/src/clients/sas_token_policy.rs      *)
(***************************************************************************)
EXTENDS Integers, Sequences, FiniteSets, TLC

VARIABLES
    \* ---- pipeline.rs ----
    phase,          \* "unbuilt" | "idle" | "down" | "up" | "panicked"
    args,           \* the arguments Pipeline::new was called with
    built,          \* per_call_policies (the local of Pipeline::new) after the pushes
    pipeline,       \* the assembled policy sequence
    ctx,            \* the Context of the send in progress
    request,        \* the Request of the send in progress
    pos,            \* index of the policy that runs next
    attempts,       \* physical attempts the retry policy has started
    outcome,        \* result travelling up: "none" | "Ok" | "Transient" | "Fatal"
    trace,          \* enter/exit events of the current (or last) send
    clones,         \* the policy sequences of the handles made by Pipeline::clone
    via,            \* the handle the send goes through: 0, or i for clones[i]
    \* ---- recoverable/receiver.rs ----
    rbudget,        \* attempts the connection's retry_options allow
    rtimeout,       \* whether self.timeout is Some(..)
    rpc,            \* per call: "idle" | "ensure" | "receive" | "decide" | "done"
    rattempts,      \* per call: invocations of the retried closure
    rhandle,        \* per call: the attempt whose ensure_receiver gave `receiver`
    rerr,           \* per call: the error of the last failed attempt
    rresult,        \* per call: what receive_delivery returned
    rallretry,      \* per call: every attempt so far failed with a transient AMQP error
    rnonretry,      \* per call: the attempt that first failed otherwise, or 0
    rloser,         \* per call: the future of select! that lost the last race
    rop,            \* per caller: the operation it called last
    rpred,          \* per call: whether the retry engine was given a predicate
    \* ---- client_certificate_credential.rs ----
    now,            \* OffsetDateTime::now_utc()
    cert_ok,        \* whether the credential's certificate decodes and parses
    cache,          \* the TokenCache: scopes -> cached AccessToken
    inflight,       \* callers whose fetch closure is running
    cpc,            \* per caller: "idle" | "waiting" | "http" | "done"
    cscopes,        \* per caller: the scopes of its call
    cresult,        \* per caller: what get_token returned
    cfetched,       \* per caller: invocations of the fetch closure in its call
    csent,          \* per caller: token requests sent in its call
    cjoined,        \* per caller: a fetch for its scopes was running at the call
    chit,           \* per caller: the fresh token cached at the call, if any
    envvar,         \* the value of AZURE_CLIENT_SEND_CERTIFICATE_CHAIN
    copts           \* the ClientCertificateCredentialOptions values made so far

pvars == <<phase, args, built, pipeline, ctx, request, pos, attempts, outcome,
           trace, clones, via>>

rvars == <<rbudget, rtimeout, rpc, rattempts, rhandle, rerr, rresult,
           rallretry, rnonretry, rloser, rop, rpred>>

cvars == <<now, cert_ok, cache, inflight, cpc, cscopes, cresult, cfetched,
           csent, cjoined, chit>>

ovars == <<envvar, copts>>

vars == <<pvars, rvars, cvars, ovars>>

----------------------------------------------------------------------------
(* Bounds *)

MaxPerCall == 2
MaxPerTry == 1
MaxTries == 2
MaxBudget == 3
MaxTime == 3

\* Handles made by Pipeline::clone.
MaxClones == 2

----------------------------------------------------------------------------
(* Policies *)

None == "none"

CLIENT_REQUEST_ID == "x-ms-client-request-id"
CUSTOM_HEADER_NAME == "x-custom-request-id"
USER_AGENT == "user-agent"

HeaderNames == {CLIENT_REQUEST_ID, CUSTOM_HEADER_NAME, USER_AGENT}

\* A policy value: its type (what TypeId::of / type_id() compare) and its
\* configuration, a tuple of strings.
Policy(kind, conf) == [kind |-> kind, conf |-> conf]

\* ClientRequestIdPolicy::default() and ::with_header_name(name)
ClientRequestIdPolicyDefault == Policy("ClientRequestIdPolicy", <<CLIENT_REQUEST_ID>>)

ClientRequestIdPolicyWithHeaderName(name) == Policy("ClientRequestIdPolicy", <<name>>)

\* UserAgentPolicy::new(crate_name, crate_version, &user_agent): the header
\* value starts with azsdk-rust-<crate_name>/<crate_version>
\* <<identity prefix, platform part>>
UserAgentPolicyNew(crate_name, crate_version) ==
    Policy("UserAgentPolicy",
           <<"azsdk-rust-" \o crate_name \o "/" \o crate_version,
             " (rustc; os; arch)">>)

\* A policy of the caller that leaves the headers alone.
OpaquePolicy(tag) == Policy("Opaque", <<tag>>)

RetryPolicy == Policy("RetryPolicy", <<>>)

CustomHeadersPolicy == Policy("CustomHeadersPolicy", <<>>)

TransportPolicy == Policy("TransportPolicy", <<>>)

----------------------------------------------------------------------------
(* Pipeline::new *)

\* push_unique with the all() test negated: pushes when the kind is present too.
push_unique_always(policies, policy) == Append(policies, policy)

\* push_unique with any() in place of all(): pushes only when some element is
\* of another kind, so never onto an empty list.
push_unique_any(policies, policy) ==
    IF \E i \in 1..Len(policies) : policy.kind # policies[i].kind
    THEN Append(policies, policy)
    ELSE policies

\* fn push_unique<T>(policies, policy)
push_unique(policies, policy) ==
    IF \A i \in 1..Len(policies) : policy.kind # policies[i].kind
    THEN Append(policies, policy)
    ELSE policies

\* The per-call list of Pipeline::new with the user-agent policy pushed before
\* the correlation-id policy.
PerCallPoliciesAgentFirst(crate_name, crate_version, options, per_call_policies) ==
    LET with_agent ==
            IF ~options.user_agent.disabled
            THEN push_unique(per_call_policies,
                             UserAgentPolicyNew(crate_name, crate_version))
            ELSE per_call_policies
    IN  push_unique(with_agent, ClientRequestIdPolicyDefault)

\* The per-call list of Pipeline::new after its two pushes (lines 51-58), with
\* the user_agent.disabled test dropped.
PerCallPoliciesNoToggle(crate_name, crate_version, options, per_call_policies) ==
    push_unique(push_unique(per_call_policies, ClientRequestIdPolicyDefault),
                UserAgentPolicyNew(crate_name, crate_version))

\* The per-call list of Pipeline::new after its two pushes (lines 51-58).
PerCallPolicies(crate_name, crate_version, options, per_call_policies) ==
    LET with_id == push_unique(per_call_policies, ClientRequestIdPolicyDefault)
    IN  IF ~options.user_agent.disabled
        THEN push_unique(with_id, UserAgentPolicyNew(crate_name, crate_version))
        ELSE with_id

\* typespec_client_core's http::Pipeline::new: client per-call, user per-call,
\* retry, custom headers, client per-try, user per-try, transport.
HttpPipelineNew(options, per_call_policies, per_try_policies) ==
    per_call_policies \o options.per_call_policies
        \o <<RetryPolicy, CustomHeadersPolicy>>
        \o per_try_policies \o options.per_try_policies
        \o <<TransportPolicy>>

\* Pipeline::new with the per-try policies put behind the assembled sequence.
PipelineNewPerTryLast(crate_name, crate_version, options, per_call_policies, per_try_policies) ==
    HttpPipelineNew(options,
        PerCallPolicies(crate_name, crate_version, options, per_call_policies),
        <<>>) \o per_try_policies

\* Pipeline::new with the two lists handed on in each other's place.
PipelineNewSwapped(crate_name, crate_version, options, per_call_policies, per_try_policies) ==
    HttpPipelineNew(options, per_try_policies,
        PerCallPolicies(crate_name, crate_version, options, per_call_policies))

\* Pipeline::new (lines 44-65)
PipelineNew(crate_name, crate_version, options, per_call_policies, per_try_policies) ==
    HttpPipelineNew(options,
        PerCallPolicies(crate_name, crate_version, options, per_call_policies),
        per_try_policies)

----------------------------------------------------------------------------
(* Inputs *)

RECURSIVE SeqsUpTo(_, _)
SeqsUpTo(S, n) ==
    IF n = 0 THEN {<<>>}
    ELSE LET shorter == SeqsUpTo(S, n - 1)
         IN  shorter \cup {Append(s, x) : s \in shorter, x \in S}

\* Policies a client library passes as per_call_policies.
ClientPerCall ==
    { OpaquePolicy("A"),
      ClientRequestIdPolicyDefault,
      ClientRequestIdPolicyWithHeaderName(CUSTOM_HEADER_NAME),
      Policy("UserAgentPolicy", <<"caller-agent", "">>) }

ClientPerTry == { OpaquePolicy("B") }

\* Policies a user puts in ClientOptions::per_call_policies / per_try_policies.
UserPerCall == { OpaquePolicy("U"),
                 ClientRequestIdPolicyWithHeaderName(CUSTOM_HEADER_NAME) }

UserPerTry == { OpaquePolicy("V") }

OptionsSet ==
    [ user_agent : [disabled : BOOLEAN],
      per_call_policies : {<<>>} \cup {<<p>> : p \in UserPerCall},
      per_try_policies : {<<>>} \cup {<<p>> : p \in UserPerTry},
      max_tries : 1..MaxTries ]

CrateNames == {"test-crate"}
CrateVersions == {"1.0.0"}

\* Context::new(), with or without ctx.insert(ClientRequestId::new(..))
Contexts == [client_request_id : {None, "caller-request-id"}]

GENERATED_ID == "generated-uuid"

\* A header value is a tuple of strings; the empty tuple is an absent header.
NoHeader == <<>>

\* Option<&str> over strings kept as tuples of characters.
QueryNone == [some |-> FALSE, str |-> <<>>]

QuerySome(str) == [some |-> TRUE, str |-> str]

\* Request::new(url, Method::Get): no header set, a URL without a query
NewRequest == [headers |-> [h \in HeaderNames |-> NoHeader],
               query |-> QueryNone]

\* SasTokenCredentialPolicy::new(token)
SasTokenCredentialPolicy(token) == Policy("SasTokenCredentialPolicy", token)

\* "sig=abc" and "sv=1"
SasTokens == { <<"s", "i", "g", "=", "a", "b", "c">>, <<"s", "v", "=", "1">> }

\* URLs without a query, with an empty query, with the queries "a=1", "b=2&c"
Queries == { QueryNone, QuerySome(<<>>), QuerySome(<<"a", "=", "1">>),
             QuerySome(<<"b", "=", "2", "&", "c">>) }

NoArgs == [crate_name |-> None, crate_version |-> None,
           options |-> [user_agent |-> [disabled |-> FALSE],
                        per_call_policies |-> <<>>, per_try_policies |-> <<>>,
                        max_tries |-> 1],
           per_call_policies |-> <<>>, per_try_policies |-> <<>>]

----------------------------------------------------------------------------
(* Policy::send of the policies of the chain *)

insert_header(req, name, value) ==
    [req EXCEPT !.headers[name] = value]

\* Option::unwrap_or_default
unwrap_or_default(o) == IF o.some THEN o.str ELSE <<>>

\* The policy with the query put in front of the token.
SasTokenSendAppends(token, req) ==
    LET query == unwrap_or_default(req.query)
    IN  [req EXCEPT !.query =
            QuerySome(IF query = <<>> THEN token
                      ELSE query \o <<"&">> \o token)]

\* SasTokenCredentialPolicy::send, lines 50-56: the request's query becomes
\* the token, or format!("{}&{}", token, query) when there is a query.
\* (Url::set_query keeps the characters used here as they are.)
SasTokenSend(token, req) ==
    LET query == unwrap_or_default(req.query)
    IN  [req EXCEPT !.query =
            QuerySome(IF query = <<>> THEN token
                      ELSE token \o <<"&">> \o query)]

\* What a policy does to the request before it delegates to next[0].
PolicyApply(policy, c, req) ==
    CASE policy.kind = "ClientRequestIdPolicy" ->
            IF c.client_request_id # None
            THEN insert_header(req, policy.conf[1], <<c.client_request_id>>)
            ELSE IF req.headers[policy.conf[1]] = NoHeader
                 THEN insert_header(req, policy.conf[1], <<GENERATED_ID>>)
                 ELSE req
      [] policy.kind = "UserAgentPolicy" ->
            insert_header(req, USER_AGENT, policy.conf)
      [] policy.kind = "SasTokenCredentialPolicy" ->
            SasTokenSend(policy.conf, req)
      [] OTHER -> req

\* Deref: the policy sequence behind the handle the send goes through.
Chain == IF via = 0 THEN pipeline ELSE clones[via]

Event(ev, i) == [ev |-> ev, idx |-> i, policy |-> Chain[i]]

----------------------------------------------------------------------------
(* The pipeline's operations *)

PInit ==
    /\ phase = "unbuilt"
    /\ args = NoArgs
    /\ built = <<>>
    /\ pipeline = <<>>
    /\ ctx = [client_request_id |-> None]
    /\ request = NewRequest
    /\ pos = 0
    /\ attempts = 0
    /\ outcome = None
    /\ trace = <<>>
    /\ clones = <<>>
    /\ via = 0

\* Pipeline::new(crate_name, crate_version, options, per_call, per_try)
New ==
    /\ phase = "unbuilt"
    /\ \E cn \in CrateNames, cv \in CrateVersions, o \in OptionsSet,
          pc \in SeqsUpTo(ClientPerCall, MaxPerCall),
          pt \in SeqsUpTo(ClientPerTry, MaxPerTry) :
         /\ args' = [crate_name |-> cn, crate_version |-> cv, options |-> o,
                     per_call_policies |-> pc, per_try_policies |-> pt]
         /\ built' = PerCallPolicies(cn, cv, o, pc)
         /\ pipeline' = PipelineNew(cn, cv, o, pc, pt)
    /\ phase' = "idle"
    /\ UNCHANGED <<ctx, request, pos, attempts, outcome, trace, clones, via>>
    /\ UNCHANGED <<rvars, cvars, ovars>>

\* A policy that returns to its caller without calling next[0].
DelegateNever ==
    /\ pos' = pos - 1
    /\ phase' = IF pos = 1 THEN "idle" ELSE "up"

\* next[0].send(ctx, request, &next[1..]): the policy after the running one
\* is called with the rest; indexing an empty `next` panics.
Delegate ==
    IF pos < Len(Chain)
    THEN /\ pos' = pos + 1
         /\ UNCHANGED phase
    ELSE /\ phase' = "panicked"
         /\ UNCHANGED pos

\* pipeline.send(&ctx, &mut request): the first policy is called with the rest.
Send ==
    /\ phase = "idle"
    /\ \E c \in Contexts : ctx' = c
    /\ request' = NewRequest
    /\ pos' = 1
    /\ attempts' = 0
    /\ outcome' = None
    /\ trace' = <<>>
    /\ phase' = "down"
    /\ via' = 0
    /\ UNCHANGED <<args, built, pipeline, clones>>
    /\ UNCHANGED <<rvars, cvars, ovars>>

\* A policy other than retry and transport runs and delegates to next[0].
PolicyEnter ==
    /\ phase = "down"
    /\ Chain[pos].kind \notin {"RetryPolicy", "TransportPolicy"}
    /\ request' = PolicyApply(Chain[pos], ctx, request)
    /\ trace' = Append(trace, Event("enter", pos))
    /\ Delegate
    /\ UNCHANGED <<args, built, pipeline, ctx, attempts, outcome, clones, via>>
    /\ UNCHANGED <<rvars, cvars, ovars>>

\* The retry policy is entered and starts its first attempt.
RetryEnter ==
    /\ phase = "down"
    /\ Chain[pos].kind = "RetryPolicy"
    /\ attempts' = 1
    /\ trace' = Append(trace, Event("enter", pos))
    /\ Delegate
    /\ UNCHANGED <<args, built, pipeline, ctx, request, outcome, clones, via>>
    /\ UNCHANGED <<rvars, cvars, ovars>>

\* The transport policy executes the request and produces the result.
Transport ==
    /\ phase = "down"
    /\ Chain[pos].kind = "TransportPolicy"
    /\ \E r \in {"Ok", "Transient", "Fatal"} : outcome' = r
    /\ trace' = trace \o <<Event("enter", pos), Event("exit", pos)>>
    /\ pos' = pos - 1
    /\ phase' = "up"
    /\ UNCHANGED <<args, built, pipeline, ctx, request, attempts, clones, via>>
    /\ UNCHANGED <<rvars, cvars, ovars>>

\* A policy other than retry gets its successor's result and returns it.
PolicyExit ==
    /\ phase = "up"
    /\ Chain[pos].kind # "RetryPolicy"
    /\ trace' = Append(trace, Event("exit", pos))
    /\ pos' = pos - 1
    /\ phase' = IF pos = 1 THEN "idle" ELSE "up"
    /\ UNCHANGED <<args, built, pipeline, ctx, request, attempts, outcome,
                   clones, via>>
    /\ UNCHANGED <<rvars, cvars, ovars>>

\* The retry policy gets the result of an attempt: it re-drives the policies
\* after it on a transient failure while tries remain, else returns the result.
RetryExit ==
    /\ phase = "up"
    /\ Chain[pos].kind = "RetryPolicy"
    /\ IF outcome = "Transient" /\ attempts < args.options.max_tries
       THEN /\ attempts' = attempts + 1
            /\ outcome' = None
            /\ pos' = pos + 1
            /\ phase' = "down"
            /\ UNCHANGED trace
       ELSE /\ trace' = Append(trace, Event("exit", pos))
            /\ pos' = pos - 1
            /\ phase' = IF pos = 1 THEN "idle" ELSE "up"
            /\ UNCHANGED <<attempts, outcome>>
    /\ UNCHANGED <<args, built, pipeline, ctx, request, clones, via>>
    /\ UNCHANGED <<rvars, cvars, ovars>>

\* #[derive(Clone)] on Pipeline: the new handle holds the same policies.
PipelineCloneRebuilt(p) == HttpPipelineNew(NoArgs.options, <<>>, <<>>)

PipelineClone(p) == p

\* The policy sequence behind handle h.
Deref(h) == IF h = 0 THEN pipeline ELSE clones[h]

SasPolicies == { SasTokenCredentialPolicy(t) : t \in SasTokens }

\* The per-call policies a client library passes: none, a SAS token policy,
\* a policy of its own that can reject the request, or both.
ClientPerCallLists ==
    {<<>>, <<OpaquePolicy("A")>>}
        \cup { <<p>> : p \in SasPolicies }
        \cup { <<p, OpaquePolicy("A")>> : p \in SasPolicies }

\* A policy written by the client library rejects the request before it
\* delegates: its send returns Err without calling next[0].send.
PolicyFails ==
    /\ phase = "down"
    /\ Chain[pos].kind = "Opaque"
    /\ outcome' = "PolicyError"
    /\ trace' = trace \o <<Event("enter", pos), Event("fail", pos)>>
    /\ pos' = pos - 1
    /\ phase' = IF pos = 1 THEN "idle" ELSE "up"
    /\ UNCHANGED <<args, built, pipeline, ctx, request, attempts, clones, via>>
    /\ UNCHANGED <<rvars, cvars, ovars>>

\* The options of a client that adds no policy of its own.
PlainOptions ==
    { o \in OptionsSet : /\ o.per_call_policies = <<>>
                         /\ o.per_try_policies = <<>>
                         /\ ~o.user_agent.disabled }

\* Pipeline::new for a client that authenticates with a SAS token: the SAS
\* policy is handed over as a per-call or as a per-try policy.
NewSas ==
    /\ phase = "unbuilt"
    /\ \E cn \in CrateNames, cv \in CrateVersions, o \in PlainOptions,
          pc \in ClientPerCallLists, pt \in SeqsUpTo(SasPolicies, 1) :
         /\ args' = [crate_name |-> cn, crate_version |-> cv, options |-> o,
                     per_call_policies |-> pc, per_try_policies |-> pt]
         /\ built' = PerCallPolicies(cn, cv, o, pc)
         /\ pipeline' = PipelineNew(cn, cv, o, pc, pt)
    /\ phase' = "idle"
    /\ UNCHANGED <<ctx, request, pos, attempts, outcome, trace, clones, via>>
    /\ UNCHANGED <<rvars, cvars, ovars>>

\* pipeline.clone(), of the first handle or of a clone.
CloneHandle ==
    /\ phase \in {"idle", "down", "up"}
    /\ Len(clones) < MaxClones
    /\ \E h \in 0..Len(clones) :
         clones' = Append(clones, PipelineClone(Deref(h)))
    /\ UNCHANGED <<phase, args, built, pipeline, ctx, request, pos, attempts,
                   outcome, trace, via>>
    /\ UNCHANGED <<rvars, cvars, ovars>>

\* handle.send(&ctx, &mut request) through any handle, for a request whose
\* URL may carry a query.
SendQuery ==
    /\ phase = "idle"
    /\ \E h \in 0..Len(clones) : via' = h
    /\ \E q \in Queries : request' = [NewRequest EXCEPT !.query = q]
    /\ ctx' = [client_request_id |-> None]
    /\ pos' = 1
    /\ attempts' = 0
    /\ outcome' = None
    /\ trace' = <<>>
    /\ phase' = "down"
    /\ UNCHANGED <<args, built, pipeline, clones>>
    /\ UNCHANGED <<rvars, cvars, ovars>>

\* A client with a SAS token policy whose handle is cloned and sent through.
SNext ==
    \/ NewSas
    \/ CloneHandle
    \/ SendQuery
    \/ PolicyEnter
    \/ PolicyFails
    \/ RetryEnter
    \/ Transport
    \/ PolicyExit
    \/ RetryExit

PNext ==
    \/ New
    \/ Send
    \/ PolicyEnter
    \/ RetryEnter
    \/ Transport
    \/ PolicyExit
    \/ RetryExit

----------------------------------------------------------------------------
(* Errors of the receive path *)

Callers == {"c1", "c2"}

AzureError(kind, source, transient, origin, attempt) ==
    [kind |-> kind, source |-> source, transient |-> transient,
     origin |-> origin, attempt |-> attempt]

NoError == AzureError(None, None, FALSE, None, 0)

\* kind: the azure_core ErrorKind; source: what e.source() downcasts to;
\* transient: what should_retry_amqp_error answers for an AmqpError source.
ErrorShapes ==
    { <<"Amqp", "BoxedAmqpError", TRUE>>,
      <<"Amqp", "BoxedAmqpError", FALSE>>,
      <<"Amqp", "AmqpError", TRUE>>,
      <<"Amqp", "AmqpError", FALSE>>,
      <<"Amqp", None, FALSE>>,
      <<"Amqp", "OtherError", FALSE>>,
      <<"Other", "AmqpError", TRUE>> }

\* The timer's error built as an AMQP error.
TimedOutErrorAmqp(attempt) == AzureError("Amqp", None, FALSE, "timer", attempt)

\* Error::new(ErrorKind::Io, io::Error::from(io::ErrorKind::TimedOut))
TimedOutError(attempt) == AzureError("Io", "IoTimedOut", FALSE, "timer", attempt)

\* RecoverableConnection::should_retry_amqp_error
should_retry_amqp_error(e) == e.transient

\* The predicate with its unboxed-AmqpError arm missing.
should_retry_boxed_only(e) ==
    e.kind = "Amqp" /\ e.source = "BoxedAmqpError" /\ should_retry_amqp_error(e)

\* The predicate with its wildcard arm answering true.
should_retry_wildcard_true(e) ==
    IF e.kind = "Amqp"
    THEN e.source \in {"BoxedAmqpError", "AmqpError"} /\ should_retry_amqp_error(e)
    ELSE TRUE

\* The predicate without the match on the error's kind.
should_retry_any_kind(e) ==
    e.source \in {"BoxedAmqpError", "AmqpError"} /\ should_retry_amqp_error(e)

\* RecoverableReceiver::should_retry_receive_operation
should_retry_receive_operation(e) ==
    IF e.kind = "Amqp"
    THEN IF e.source # None
         THEN IF e.source = "BoxedAmqpError"
              THEN should_retry_amqp_error(e)
              ELSE IF e.source = "AmqpError"
                   THEN should_retry_amqp_error(e)
                   ELSE FALSE
         ELSE FALSE
    ELSE FALSE

\* The call at line 118 passing None as is_retryable.
HasPredicateNone == FALSE

\* The is_retryable argument of the call at line 118:
\* Some(Self::should_retry_receive_operation)
HasPredicate == TRUE

\* retry_azure_operation's test after a failed attempt: retry when the
\* predicate is given and accepts the error and the budget is not used up.
ShallRetry(has_predicate, e, made, budget) ==
    /\ has_predicate
    /\ should_retry_receive_operation(e)
    /\ made < budget

\* Told from the error's shape alone: a transient AMQP failure.
TransientAmqp(e) ==
    /\ e.kind = "Amqp"
    /\ e.source \in {"BoxedAmqpError", "AmqpError"}
    /\ e.transient

----------------------------------------------------------------------------
(* RecoverableReceiver::receive_delivery *)

RIdle ==
    /\ rpc = [c \in Callers |-> "idle"]
    /\ rattempts = [c \in Callers |-> 0]
    /\ rhandle = [c \in Callers |-> 0]
    /\ rerr = [c \in Callers |-> NoError]
    /\ rresult = [c \in Callers |-> [ok |-> FALSE, err |-> NoError]]
    /\ rallretry = [c \in Callers |-> TRUE]
    /\ rnonretry = [c \in Callers |-> 0]
    /\ rloser = [c \in Callers |-> None]
    /\ rop = [c \in Callers |-> None]
    /\ rpred = [c \in Callers |-> FALSE]

\* RecoverableReceiver::new(connection, options, source, url, timeout)
RInit ==
    /\ rbudget \in 1..MaxBudget
    /\ rtimeout \in BOOLEAN
    /\ RIdle

\* A failed attempt that leaves an earlier attempt's error in place.
FailedKeepsFirst(c, e) ==
    /\ rerr' = [rerr EXCEPT ![c] = IF @ = NoError THEN e ELSE @]
    /\ rpc' = [rpc EXCEPT ![c] = "decide"]
    /\ rallretry' = [rallretry EXCEPT ![c] = @ /\ TransientAmqp(e)]
    /\ rnonretry' = [rnonretry EXCEPT ![c] =
                        IF @ = 0 /\ ~TransientAmqp(e) THEN rattempts[c] ELSE @]

\* An attempt of call c failed with e: the closure returns Err(e).
Failed(c, e) ==
    /\ rerr' = [rerr EXCEPT ![c] = e]
    /\ rpc' = [rpc EXCEPT ![c] = "decide"]
    /\ rallretry' = [rallretry EXCEPT ![c] = @ /\ TransientAmqp(e)]
    /\ rnonretry' = [rnonretry EXCEPT ![c] =
                        IF @ = 0 /\ ~TransientAmqp(e) THEN rattempts[c] ELSE @]

\* receive_delivery counting its attempts on from those of the calls of the
\* other callers that are under way.
ReceiveDeliverySharedCount(c) ==
    /\ rpc[c] \in {"idle", "done"}
    /\ rpc' = [rpc EXCEPT ![c] = "ensure"]
    /\ rattempts' = [rattempts EXCEPT ![c] =
            IF \E d \in Callers \ {c} : rpc[d] \notin {"idle", "done", "panicked"}
            THEN 2 ELSE 1]
    /\ rhandle' = [rhandle EXCEPT ![c] = 0]
    /\ rerr' = [rerr EXCEPT ![c] = NoError]
    /\ rresult' = [rresult EXCEPT ![c] = [ok |-> FALSE, err |-> NoError]]
    /\ rallretry' = [rallretry EXCEPT ![c] = TRUE]
    /\ rnonretry' = [rnonretry EXCEPT ![c] = 0]
    /\ rloser' = [rloser EXCEPT ![c] = None]
    /\ rop' = [rop EXCEPT ![c] = "receive_delivery"]
    /\ rpred' = [rpred EXCEPT ![c] = HasPredicate]
    /\ UNCHANGED <<rbudget, rtimeout>>
    /\ UNCHANGED <<pvars, cvars, ovars>>

\* receive_delivery is called: retry_azure_operation invokes the closure.
ReceiveDelivery(c) ==
    /\ rpc[c] \in {"idle", "done"}
    /\ rpc' = [rpc EXCEPT ![c] = "ensure"]
    /\ rattempts' = [rattempts EXCEPT ![c] = 1]
    /\ rhandle' = [rhandle EXCEPT ![c] = 0]
    /\ rerr' = [rerr EXCEPT ![c] = NoError]
    /\ rresult' = [rresult EXCEPT ![c] = [ok |-> FALSE, err |-> NoError]]
    /\ rallretry' = [rallretry EXCEPT ![c] = TRUE]
    /\ rnonretry' = [rnonretry EXCEPT ![c] = 0]
    /\ rloser' = [rloser EXCEPT ![c] = None]
    /\ rop' = [rop EXCEPT ![c] = "receive_delivery"]
    /\ rpred' = [rpred EXCEPT ![c] = HasPredicate]
    /\ UNCHANGED <<rbudget, rtimeout>>
    /\ UNCHANGED <<pvars, cvars, ovars>>

\* The closure keeping the receiver it got in the call's first attempt.
EnsureReceiverOnce(c) ==
    /\ rpc[c] = "ensure"
    /\ rhandle' = [rhandle EXCEPT ![c] = IF @ = 0 THEN rattempts[c] ELSE @]
    /\ rpc' = [rpc EXCEPT ![c] = "receive"]
    /\ UNCHANGED <<rbudget, rtimeout, rattempts, rerr, rresult, rallretry,
                   rnonretry, rloser>>
    /\ UNCHANGED <<rop, rpred>>
    /\ UNCHANGED <<pvars, cvars, ovars>>

\* ensure_receiver(..).await returns the receiver (lines 96-103).
EnsureReceiverOk(c) ==
    /\ rpc[c] = "ensure"
    /\ rhandle' = [rhandle EXCEPT ![c] = rattempts[c]]
    /\ rpc' = [rpc EXCEPT ![c] = "receive"]
    /\ UNCHANGED <<rbudget, rtimeout, rattempts, rerr, rresult, rallretry,
                   rnonretry, rloser>>
    /\ UNCHANGED <<rop, rpred>>
    /\ UNCHANGED <<pvars, cvars, ovars>>

\* ensure_receiver(..).await? fails: the closure returns its error.
EnsureReceiverErr(c) ==
    /\ rpc[c] = "ensure"
    /\ \E s \in ErrorShapes :
         Failed(c, AzureError(s[1], s[2], s[3], "ensure", rattempts[c]))
    /\ UNCHANGED <<rbudget, rtimeout, rattempts, rhandle, rresult, rloser>>
    /\ UNCHANGED <<rop, rpred>>
    /\ UNCHANGED <<pvars, cvars, ovars>>

\* receiver.receive_delivery() completes with a delivery (lines 106, 114).
ReceiveOk(c) ==
    /\ rpc[c] = "receive"
    /\ rresult' = [rresult EXCEPT ![c] = [ok |-> TRUE, err |-> NoError]]
    /\ rpc' = [rpc EXCEPT ![c] = "done"]
    /\ rallretry' = [rallretry EXCEPT ![c] = FALSE]
    /\ rloser' = [rloser EXCEPT ![c] = IF rtimeout THEN "timer" ELSE None]
    /\ UNCHANGED <<rbudget, rtimeout, rattempts, rhandle, rerr, rnonretry>>
    /\ UNCHANGED <<rop, rpred>>
    /\ UNCHANGED <<pvars, cvars, ovars>>

\* receiver.receive_delivery() completes with an error (lines 106, 112, 114).
ReceiveErr(c) ==
    /\ rpc[c] = "receive"
    /\ \E s \in ErrorShapes :
         Failed(c, AzureError(s[1], s[2], s[3], "receive", rattempts[c]))
    /\ rloser' = [rloser EXCEPT ![c] = IF rtimeout THEN "timer" ELSE None]
    /\ UNCHANGED <<rbudget, rtimeout, rattempts, rhandle, rresult>>
    /\ UNCHANGED <<rop, rpred>>
    /\ UNCHANGED <<pvars, cvars, ovars>>

\* A timer that never completes.
TimerNever(c) ==
    /\ FALSE
    /\ UNCHANGED vars

\* sleep(delivery_timeout) completes first (lines 107-111).
TimerFires(c) ==
    /\ rpc[c] = "receive"
    /\ rtimeout
    /\ Failed(c, TimedOutError(rattempts[c]))
    /\ rloser' = [rloser EXCEPT ![c] = "receive"]
    /\ UNCHANGED <<rbudget, rtimeout, rattempts, rhandle, rresult>>
    /\ UNCHANGED <<rop, rpred>>
    /\ UNCHANGED <<pvars, cvars, ovars>>

\* retry_azure_operation after a failed attempt: invoke the closure again.
RetryAgain(c) ==
    /\ rpc[c] = "decide"
    /\ ShallRetry(rpred[c], rerr[c], rattempts[c], rbudget)
    /\ rattempts' = [rattempts EXCEPT ![c] = @ + 1]
    /\ rpc' = [rpc EXCEPT ![c] = "ensure"]
    /\ UNCHANGED <<rbudget, rtimeout, rhandle, rerr, rresult, rallretry,
                   rnonretry, rloser>>
    /\ UNCHANGED <<rop, rpred>>
    /\ UNCHANGED <<pvars, cvars, ovars>>

\* retry_azure_operation after a failed attempt: return the error (line 120).
RetryGiveUp(c) ==
    /\ rpc[c] = "decide"
    /\ ~ShallRetry(rpred[c], rerr[c], rattempts[c], rbudget)
    /\ rresult' = [rresult EXCEPT ![c] = [ok |-> FALSE, err |-> rerr[c]]]
    /\ rpc' = [rpc EXCEPT ![c] = "done"]
    /\ UNCHANGED <<rbudget, rtimeout, rattempts, rhandle, rerr, rallretry,
                   rnonretry, rloser>>
    /\ UNCHANGED <<rop, rpred>>
    /\ UNCHANGED <<pvars, cvars, ovars>>

\* The future that lost the race of select! would have completed now: it was
\* dropped when select! returned, so its result reaches nobody.
LoserCompletes(c) ==
    /\ rloser[c] # None
    /\ rloser' = [rloser EXCEPT ![c] = None]
    /\ UNCHANGED <<rbudget, rtimeout, rpc, rattempts, rhandle, rerr, rresult,
                   rallretry, rnonretry>>
    /\ UNCHANGED <<rop, rpred>>
    /\ UNCHANGED <<pvars, cvars, ovars>>

\* The operations of AmqpReceiverApis left as unimplemented!().
UnimplementedOps ==
    { "attach", "detach", "set_credit_mode", "credit_mode",
      "accept_delivery", "reject_delivery", "release_delivery" }

\* The start of a call: nothing of an earlier call of the caller is left.
FreshCall(c, op, pc, made, pred, result) ==
    /\ rop' = [rop EXCEPT ![c] = op]
    /\ rpc' = [rpc EXCEPT ![c] = pc]
    /\ rattempts' = [rattempts EXCEPT ![c] = made]
    /\ rpred' = [rpred EXCEPT ![c] = pred]
    /\ rresult' = [rresult EXCEPT ![c] = result]
    /\ rhandle' = [rhandle EXCEPT ![c] = 0]
    /\ rerr' = [rerr EXCEPT ![c] = NoError]
    /\ rallretry' = [rallretry EXCEPT ![c] = TRUE]
    /\ rnonretry' = [rnonretry EXCEPT ![c] = 0]
    /\ rloser' = [rloser EXCEPT ![c] = None]

\* An operation left unimplemented that returns Ok(()) instead.
UnimplementedNoOp(c) ==
    /\ rpc[c] \in {"idle", "done"}
    /\ \E op \in UnimplementedOps :
         FreshCall(c, op, "done", 0, FALSE, [ok |-> TRUE, err |-> NoError])
    /\ UNCHANGED <<rbudget, rtimeout>>
    /\ UNCHANGED <<pvars, cvars, ovars>>

\* attach, detach, set_credit_mode, credit_mode, accept_delivery,
\* reject_delivery, release_delivery: unimplemented!() panics at once, and
\* the caller's task unwinds.
Unimplemented(c) ==
    /\ rpc[c] \in {"idle", "done"}
    /\ \E op \in UnimplementedOps :
         FreshCall(c, op, "panicked", 0, FALSE, [ok |-> FALSE, err |-> NoError])
    /\ UNCHANGED <<rbudget, rtimeout>>
    /\ UNCHANGED <<pvars, cvars, ovars>>

\* retry_azure_operation(operation, retry_options, None): an operation run
\* by the retry engine without a predicate.
OperationWithoutPredicate(c) ==
    /\ rpc[c] \in {"idle", "done"}
    /\ FreshCall(c, "operation", "ensure", 1, FALSE,
                 [ok |-> FALSE, err |-> NoError])
    /\ UNCHANGED <<rbudget, rtimeout>>
    /\ UNCHANGED <<pvars, cvars, ovars>>

RNext ==
    \E c \in Callers :
        \/ ReceiveDelivery(c)
        \/ Unimplemented(c)
        \/ EnsureReceiverOk(c)
        \/ EnsureReceiverErr(c)
        \/ ReceiveOk(c)
        \/ ReceiveErr(c)
        \/ TimerFires(c)
        \/ RetryAgain(c)
        \/ RetryGiveUp(c)
        \/ LoserCompletes(c)

----------------------------------------------------------------------------
(* TokenCache and ClientCertificateCredential::get_token *)

ScopeLists == { <<>>, <<"s1">>, <<"s2">>, <<"s1", "s2">> }

\* response.expires_in of a successful token response, in ticks of the clock
ExpiresIn == {0, 3}

\* The cache refreshes a token this long before it expires.
RefreshWindow == 1

NoToken == [expires_on |-> -1, by |-> None]

\* AccessToken::new(response.access_token, now_utc() + seconds(expires_in))
AccessToken(c, expires_in) ==
    [expires_on |-> now + expires_in, by |-> c]

Returned(ok, token, err) == [ok |-> ok, token |-> token, err |-> err]

NotReturned == Returned(FALSE, NoToken, None)

\* The cache's test for a token near its expiry.
should_refresh(token) == token.expires_on <= now + RefreshWindow

IsFresh(sc) == cache[sc] # NoToken /\ ~should_refresh(cache[sc])

\* The fetch of caller c ends with result r: the cache stores a token, c and
\* the callers waiting for the same scopes get r, the other waiting callers
\* run their lookup again.
FetchEnds(c, sc, r) ==
    /\ cache' = IF r.ok THEN [cache EXCEPT ![sc] = r.token] ELSE cache
    /\ inflight' = inflight \ {c}
    /\ cresult' = [d \in Callers |->
                     IF d = c \/ (cpc[d] = "waiting" /\ cscopes[d] = sc)
                     THEN r ELSE cresult[d]]
    /\ cpc' = [d \in Callers |->
                 IF d = c \/ (cpc[d] = "waiting" /\ cscopes[d] = sc)
                 THEN "done"
                 ELSE IF cpc[d] = "waiting" THEN "resume" ELSE cpc[d]]

\* The fetch without the test of the number of scopes: only an empty scope
\* list is rejected.
InvokeFetchAnyScopes(c, sc, fetched) ==
    /\ cfetched' = [cfetched EXCEPT ![c] = fetched + 1]
    /\ IF Len(sc) = 0 \/ ~cert_ok
       THEN /\ LET r == Returned(FALSE, NoToken, "Credential")
                IN  /\ cresult' = [cresult EXCEPT ![c] = r]
                    /\ cpc' = [cpc EXCEPT ![c] = "done"]
            /\ csent' = [csent EXCEPT ![c] = 0]
            /\ UNCHANGED <<cache, inflight>>
       ELSE /\ inflight' = inflight \cup {c}
            /\ cpc' = [cpc EXCEPT ![c] = "http"]
            /\ csent' = [csent EXCEPT ![c] = 1]
            /\ cresult' = [cresult EXCEPT ![c] = NotReturned]
            /\ UNCHANGED cache

\* The closure |s, o| self.get_token(s, o) is invoked (lines 146-252): it
\* rejects the scopes or the certificate, or sends the token request.
InvokeFetch(c, sc, fetched) ==
    /\ cfetched' = [cfetched EXCEPT ![c] = fetched + 1]
    /\ IF Len(sc) # 1 \/ ~cert_ok
       THEN /\ LET r == Returned(FALSE, NoToken, "Credential")
                IN  /\ cresult' = [cresult EXCEPT ![c] = r]
                    /\ cpc' = [cpc EXCEPT ![c] = "done"]
            /\ csent' = [csent EXCEPT ![c] = 0]
            /\ UNCHANGED <<cache, inflight>>
       ELSE /\ inflight' = inflight \cup {c}
            /\ cpc' = [cpc EXCEPT ![c] = "http"]
            /\ csent' = [csent EXCEPT ![c] = 1]
            /\ cresult' = [cresult EXCEPT ![c] = NotReturned]
            /\ UNCHANGED cache

\* TokenCache::get_token(scopes, options, fetch): a fresh cached token is
\* returned; else the caller awaits the fetch in progress, or fetches.
TokenCacheGetToken(c, sc, fetched) ==
    IF IsFresh(sc)
    THEN /\ cresult' = [cresult EXCEPT ![c] = Returned(TRUE, cache[sc], None)]
         /\ cpc' = [cpc EXCEPT ![c] = "done"]
         /\ cfetched' = [cfetched EXCEPT ![c] = fetched]
         /\ csent' = [csent EXCEPT ![c] = 0]
         /\ UNCHANGED <<cache, inflight>>
    ELSE IF inflight # {}
         THEN /\ cpc' = [cpc EXCEPT ![c] = "waiting"]
              /\ cresult' = [cresult EXCEPT ![c] = NotReturned]
              /\ cfetched' = [cfetched EXCEPT ![c] = fetched]
              /\ csent' = [csent EXCEPT ![c] = 0]
              /\ UNCHANGED <<cache, inflight>>
         ELSE InvokeFetch(c, sc, fetched)

\* get_token calling self.get_token directly, past the cache.
CredentialGetTokenUncached(c, sc) == InvokeFetch(c, sc, 0)

\* TokenCredential::get_token (lines 283-293)
CredentialGetToken(c, sc) == TokenCacheGetToken(c, sc, 0)

CIdle ==
    /\ now = 0
    /\ cache = [sc \in ScopeLists |-> NoToken]
    /\ inflight = {}
    /\ cpc = [c \in Callers |-> "idle"]
    /\ cscopes = [c \in Callers |-> <<>>]
    /\ cresult = [c \in Callers |-> NotReturned]
    /\ cfetched = [c \in Callers |-> 0]
    /\ csent = [c \in Callers |-> 0]
    /\ cjoined = [c \in Callers |-> FALSE]
    /\ chit = [c \in Callers |-> NoToken]

\* ClientCertificateCredential::new: cache: TokenCache::new()
CInit ==
    /\ cert_ok \in BOOLEAN
    /\ CIdle

\* A caller calls credential.get_token(scopes, options).
GetToken(c) ==
    /\ cpc[c] \in {"idle", "done"}
    /\ \E sc \in ScopeLists :
         /\ cscopes' = [cscopes EXCEPT ![c] = sc]
         /\ cjoined' = [cjoined EXCEPT ![c] =
                \E d \in inflight : cscopes[d] = sc]
         /\ chit' = [chit EXCEPT ![c] = IF IsFresh(sc) THEN cache[sc] ELSE NoToken]
         /\ CredentialGetToken(c, sc)
    /\ UNCHANGED <<now, cert_ok>>
    /\ UNCHANGED <<pvars, rvars, ovars>>

\* A caller that waited for a fetch of other scopes looks the cache up again.
Resume(c) ==
    /\ cpc[c] = "resume"
    /\ TokenCacheGetToken(c, cscopes[c], cfetched[c])
    /\ UNCHANGED <<now, cert_ok, cscopes, cjoined, chit>>
    /\ UNCHANGED <<pvars, rvars, ovars>>

\* execute_request(&req).await? fails (line 254).
HttpFails(c) ==
    /\ cpc[c] = "http"
    /\ FetchEnds(c, cscopes[c], Returned(FALSE, NoToken, "Io"))
    /\ UNCHANGED <<now, cert_ok, cscopes, cfetched, csent, cjoined, chit>>
    /\ UNCHANGED <<pvars, rvars, ovars>>

\* A failed fetch that also drops the token cached for the scopes.
HttpStatusErrorInvalidates(c) ==
    /\ cpc[c] = "http"
    /\ FetchEnds(c, cscopes[c], Returned(FALSE, NoToken, "HttpResponse"))!2
    /\ FetchEnds(c, cscopes[c], Returned(FALSE, NoToken, "HttpResponse"))!3
    /\ FetchEnds(c, cscopes[c], Returned(FALSE, NoToken, "HttpResponse"))!4
    /\ cache' = [cache EXCEPT ![cscopes[c]] = NoToken]
    /\ UNCHANGED <<now, cert_ok, cscopes, cfetched, csent, cjoined, chit>>
    /\ UNCHANGED <<pvars, rvars, ovars>>

\* The token endpoint answers with a status that is no success (lines 257-260).
HttpStatusError(c) ==
    /\ cpc[c] = "http"
    /\ FetchEnds(c, cscopes[c], Returned(FALSE, NoToken, "HttpResponse"))
    /\ UNCHANGED <<now, cert_ok, cscopes, cfetched, csent, cjoined, chit>>
    /\ UNCHANGED <<pvars, rvars, ovars>>

\* The token endpoint answers with a token (lines 262-266).
HttpSuccess(c) ==
    /\ cpc[c] = "http"
    /\ \E e \in ExpiresIn :
         FetchEnds(c, cscopes[c], Returned(TRUE, AccessToken(c, e), None))
    /\ UNCHANGED <<now, cert_ok, cscopes, cfetched, csent, cjoined, chit>>
    /\ UNCHANGED <<pvars, rvars, ovars>>

\* Time passes.
Tick ==
    /\ now < MaxTime
    /\ now' = now + 1
    /\ UNCHANGED <<cert_ok, cache, inflight, cpc, cscopes, cresult, cfetched,
                   csent, cjoined, chit>>
    /\ UNCHANGED <<pvars, rvars, ovars>>

CNext ==
    \/ \E c \in Callers :
        \/ GetToken(c)
        \/ Resume(c)
        \/ HttpFails(c)
        \/ HttpStatusError(c)
        \/ HttpSuccess(c)
    \/ Tick

----------------------------------------------------------------------------
(* ClientCertificateCredentialOptions *)

\* env.var(key): Err(VarError) for an unset variable, Ok(string) otherwise;
\* strings are tuples of characters.
EnvUnset == [some |-> FALSE, str |-> <<>>]

EnvSet(str) == [some |-> TRUE, str |-> str]

\* unset, "", "1", "0", "true", "True", "TRUE", "false"
EnvValues ==
    { EnvUnset, EnvSet(<<>>), EnvSet(<<"1">>), EnvSet(<<"0">>),
      EnvSet(<<"t", "r", "u", "e">>), EnvSet(<<"T", "r", "u", "e">>),
      EnvSet(<<"T", "R", "U", "E">>), EnvSet(<<"f", "a", "l", "s", "e">>) }

\* char::to_lowercase on the letters used here
LowerChar(ch) ==
    CASE ch = "T" -> "t"
      [] ch = "R" -> "r"
      [] ch = "U" -> "u"
      [] ch = "E" -> "e"
      [] OTHER -> ch

\* str::to_lowercase
to_lowercase(str) == [i \in 1..Len(str) |-> LowerChar(str[i])]

OptionHolders == {"o1", "o2"}

\* how: "none" | "from" | "new"; env_seen: the variable when `from` ran;
\* set: set_send_certificate_chain was called since.
Options(how, env_seen, set, send_certificate_chain) ==
    [how |-> how, env_seen |-> env_seen, set |-> set,
     send_certificate_chain |-> send_certificate_chain]

NoOptions == Options(None, EnvUnset, FALSE, FALSE)

\* lines 47-50: env.var(KEY).map(|s| s == "1" || s.to_lowercase() == "true")
\*                 .unwrap_or(false)
SendChainFromEnv(v) ==
    IF v.some
    THEN v.str = <<"1">> \/ to_lowercase(v.str) = <<"t", "r", "u", "e">>
    ELSE FALSE

OIdle ==
    /\ envvar = EnvUnset
    /\ copts = [o \in OptionHolders |-> NoOptions]

\* The process starts with some environment.
OInit ==
    /\ envvar \in EnvValues
    /\ copts = [o \in OptionHolders |-> NoOptions]

\* ClientCertificateCredentialOptions::from(TokenCredentialOptions)
OptionsFrom(o) ==
    /\ copts' = [copts EXCEPT ![o] =
                    Options("from", envvar, FALSE, SendChainFromEnv(envvar))]
    /\ UNCHANGED envvar
    /\ UNCHANGED <<pvars, rvars, cvars>>

\* ClientCertificateCredentialOptions::new(options, send_certificate_chain)
OptionsNew(o) ==
    /\ \E b \in BOOLEAN :
         copts' = [copts EXCEPT ![o] = Options("new", EnvUnset, FALSE, b)]
    /\ UNCHANGED envvar
    /\ UNCHANGED <<pvars, rvars, cvars>>

\* options.set_send_certificate_chain(b)
SetSendCertificateChain(o) ==
    /\ copts[o].how # None
    /\ \E b \in BOOLEAN :
         copts' = [copts EXCEPT ![o] =
                     [@ EXCEPT !.set = TRUE, !.send_certificate_chain = b]]
    /\ UNCHANGED envvar
    /\ UNCHANGED <<pvars, rvars, cvars>>

\* The environment variable is set, changed or removed.
SetEnv ==
    /\ \E v \in EnvValues \ {envvar} : envvar' = v
    /\ UNCHANGED copts
    /\ UNCHANGED <<pvars, rvars, cvars>>

ONext ==
    \/ \E o \in OptionHolders :
        \/ OptionsFrom(o)
        \/ OptionsNew(o)
        \/ SetSendCertificateChain(o)
    \/ SetEnv

----------------------------------------------------------------------------
(* Specifications *)

\* The pipeline alone; no receiver or credential in use.
InitPipeline ==
    /\ PInit
    /\ rbudget = 1
    /\ rtimeout = FALSE
    /\ RIdle
    /\ cert_ok = TRUE
    /\ CIdle
    /\ OIdle

SpecPipeline == InitPipeline /\ [][PNext]_vars

\* The pipeline of a client with a SAS token policy, and its clones.
SpecSas == InitPipeline /\ [][SNext]_vars

\* The recoverable receiver alone.
InitReceiver ==
    /\ RInit
    /\ PInit
    /\ cert_ok = TRUE
    /\ CIdle
    /\ OIdle

SpecReceiver == InitReceiver /\ [][RNext]_vars

\* The retry engine driving one caller's operations, with and without a
\* predicate.
ENext ==
    \E c \in {"c1"} :
        \/ OperationWithoutPredicate(c)
        \/ ReceiveDelivery(c)
        \/ EnsureReceiverOk(c)
        \/ EnsureReceiverErr(c)
        \/ ReceiveOk(c)
        \/ ReceiveErr(c)
        \/ TimerFires(c)
        \/ RetryAgain(c)
        \/ RetryGiveUp(c)
        \/ LoserCompletes(c)

SpecEngine == InitReceiver /\ [][ENext]_vars

\* The same when every ensure_receiver call returns, every timer that was
\* started completes unless the receive does first, and the retry engine goes
\* on after each attempt; a receive need never complete.
EngineFairness ==
    \A c \in {"c1"} :
        /\ WF_vars(EnsureReceiverOk(c) \/ EnsureReceiverErr(c))
        /\ WF_vars(TimerFires(c))
        /\ WF_vars(RetryAgain(c) \/ RetryGiveUp(c))

SpecEngineFair == InitReceiver /\ [][ENext]_vars /\ EngineFairness

\* The credential and its token cache alone.
InitCache ==
    /\ CInit
    /\ PInit
    /\ rbudget = 1
    /\ rtimeout = FALSE
    /\ RIdle
    /\ OIdle

\* The credential options alone.
InitOptions ==
    /\ OInit
    /\ PInit
    /\ rbudget = 1
    /\ rtimeout = FALSE
    /\ RIdle
    /\ cert_ok = TRUE
    /\ CIdle

SpecOptions == InitOptions /\ [][ONext]_vars

SpecCache == InitCache /\ [][CNext]_vars

----------------------------------------------------------------------------
(* Properties of the pipeline *)

Done == phase = "idle" /\ trace # <<>>

\* The request is about to be handed to the transport.
AtTransport == phase = "down" /\ pipeline[pos].kind = "TransportPolicy"

Reverse(s) == [i \in 1..Len(s) |-> s[Len(s) + 1 - i]]

HasExit == \E i \in 1..Len(trace) : trace[i].ev = "exit"

FirstExit == CHOOSE i \in 1..Len(trace) :
                /\ trace[i].ev = "exit"
                /\ \A j \in 1..(i - 1) : trace[j].ev = "enter"

LastEnter == CHOOSE i \in 1..Len(trace) :
                /\ trace[i].ev = "enter"
                /\ \A j \in (i + 1)..Len(trace) : trace[j].ev = "exit"

\* The policies entered on the way down to the first transport call, in order.
Descent == [i \in 1..(FirstExit - 1) |-> trace[i].policy]

\* The policies left after the last transport call, in order.
Unwind == [i \in 1..(Len(trace) - LastEnter) |-> trace[LastEnter + i].policy]

EnterCount(i) ==
    Cardinality({j \in 1..Len(trace) : trace[j].ev = "enter" /\ trace[j].idx = i})

CountKind(policies, kind) ==
    Cardinality({i \in 1..Len(policies) : policies[i].kind = kind})

HasKind(policies, kind) == CountKind(policies, kind) > 0

\* The policies Pipeline::new may add of its own.
DefaultsOf(a) ==
    { ClientRequestIdPolicyDefault,
      UserAgentPolicyNew(a.crate_name, a.crate_version) }

----------------------------------------------------------------------------
(* C1..C6: the pipeline *)

\* The order the claim gives: per-call policies (the caller's list first, then
\* what Pipeline::new added, then the user's), retry, custom headers, per-try
\* policies (the caller's, then the user's), transport.
DescentInOrder ==
    \E added \in SeqsUpTo(DefaultsOf(args), 2) :
        Descent = args.per_call_policies \o added
                    \o args.options.per_call_policies
                    \o <<RetryPolicy, CustomHeadersPolicy>>
                    \o args.per_try_policies \o args.options.per_try_policies
                    \o <<TransportPolicy>>

\* C1: in every send the policies are entered in the order per-call policies,
\* retry policy, custom-headers policy, per-try policies, transport, and the
\* result comes back through the same policies in the reverse order.
C1_PolicyOrder ==
    /\ HasExit => DescentInOrder
    /\ Done => Unwind = Reverse(Descent)

C1_Witness ==
    /\ Done
    /\ attempts = 2
    /\ Len(args.per_call_policies) = 2
    /\ Len(args.per_try_policies) = 1
    /\ Len(args.options.per_call_policies) = 1

\* A policy of the per-call segment / of the segment after the retry policy,
\* told by where it came from and not by its place in the pipeline.
IsPerCallPolicy(p) ==
    \/ \E i \in 1..Len(args.per_call_policies) : args.per_call_policies[i] = p
    \/ \E i \in 1..Len(args.options.per_call_policies) :
            args.options.per_call_policies[i] = p
    \/ p \in DefaultsOf(args)

IsPerTryPolicy(p) ==
    \/ \E i \in 1..Len(args.per_try_policies) : args.per_try_policies[i] = p
    \/ \E i \in 1..Len(args.options.per_try_policies) :
            args.options.per_try_policies[i] = p
    \/ p \in {CustomHeadersPolicy, TransportPolicy}

\* C2: a send that made k attempts has run every per-call policy once and
\* every per-try policy and the transport k times.
C2_RunCounts ==
    Done =>
        /\ attempts >= 1
        /\ \A i \in 1..Len(pipeline) :
            /\ IsPerCallPolicy(pipeline[i]) => EnterCount(i) = 1
            /\ IsPerTryPolicy(pipeline[i]) => EnterCount(i) = attempts

C2_Witness ==
    /\ Done
    /\ attempts = 2
    /\ outcome = "Ok"
    /\ Len(args.per_call_policies) > 0
    /\ Len(args.per_try_policies) > 0

IsPrefix(s, t) ==
    /\ Len(s) <= Len(t)
    /\ \A i \in 1..Len(s) : t[i] = s[i]

DropFirst(s, n) == [i \in 1..(Len(s) - n) |-> s[n + i]]

\* What the two pushes of Pipeline::new must have appended to the list l.
ExpectedPushes(l) ==
    (IF HasKind(l, "ClientRequestIdPolicy") THEN <<>>
     ELSE <<ClientRequestIdPolicyDefault>>)
    \o (IF HasKind(l, "UserAgentPolicy") \/ args.options.user_agent.disabled
        THEN <<>>
        ELSE <<UserAgentPolicyNew(args.crate_name, args.crate_version)>>)

PushUniqueIdempotent ==
    phase # "unbuilt" =>
        /\ IsPrefix(args.per_call_policies, built)
        /\ DropFirst(built, Len(args.per_call_policies))
             = ExpectedPushes(args.per_call_policies)

IdHeaders == {CLIENT_REQUEST_ID, CUSTOM_HEADER_NAME}

\* The correlation-id policies the caller supplied, in the list or the options.
SuppliedIdPolicies ==
    { args.per_call_policies[i] : i \in
        {j \in 1..Len(args.per_call_policies) :
            args.per_call_policies[j].kind = "ClientRequestIdPolicy"} }
    \cup
    { args.options.per_call_policies[i] : i \in
        {j \in 1..Len(args.options.per_call_policies) :
            args.options.per_call_policies[j].kind = "ClientRequestIdPolicy"} }

ExpectedId == IF ctx.client_request_id # None
              THEN <<ctx.client_request_id>>
              ELSE <<GENERATED_ID>>

OnlyHeaderOf(x) ==
    \A h \in IdHeaders :
        request.headers[h] = (IF h = x.conf[1] THEN ExpectedId ELSE NoHeader)

C5_DefaultIdPolicy ==
    (AtTransport /\ ~HasKind(args.per_call_policies, "ClientRequestIdPolicy"))
    => /\ request.headers[CLIENT_REQUEST_ID] # NoHeader
       /\ ctx.client_request_id # None
            => request.headers[CLIENT_REQUEST_ID] = <<ctx.client_request_id>>

C5_Witness ==
    /\ AtTransport
    /\ args.per_call_policies = <<>>
    /\ ctx.client_request_id # None
    /\ request.headers[CLIENT_REQUEST_ID] = <<ctx.client_request_id>>

NoCallerUserAgent ==
    /\ ~HasKind(args.per_call_policies, "UserAgentPolicy")
    /\ ~HasKind(args.options.per_call_policies, "UserAgentPolicy")

\* C6: with no user-agent policy of the caller, the request at the transport
\* carries a User-Agent header, starting with azsdk-rust-<name>/<version>,
\* exactly when user_agent.disabled is false; when it is true no user-agent
\* policy is in the pipeline.
C6_UserAgentToggle ==
    (phase # "unbuilt" /\ NoCallerUserAgent) =>
        /\ args.options.user_agent.disabled
             => ~HasKind(pipeline, "UserAgentPolicy")
        /\ AtTransport =>
            /\ request.headers[USER_AGENT] # NoHeader
                 <=> ~args.options.user_agent.disabled
            /\ request.headers[USER_AGENT] # NoHeader =>
                 request.headers[USER_AGENT][1]
                   = "azsdk-rust-" \o args.crate_name \o "/" \o args.crate_version

C6_Witness ==
    /\ AtTransport
    /\ NoCallerUserAgent
    /\ args.options.user_agent.disabled
    /\ request.headers[USER_AGENT] = NoHeader

C6_WitnessEnabled ==
    /\ AtTransport
    /\ NoCallerUserAgent
    /\ ~args.options.user_agent.disabled
    /\ request.headers[USER_AGENT] # NoHeader

----------------------------------------------------------------------------
(* C7, C8: the retry of receive_delivery *)

\* C7: a call whose every attempt failed with a transient AMQP error has made
\* exactly as many attempts as the budget allows when it returns, and returns
\* the error of the last of them.
C7_BoundedRetry ==
    \A c \in Callers :
        (rpc[c] = "done" /\ rallretry[c]) =>
            /\ rattempts[c] = rbudget
            /\ ~rresult[c].ok
            /\ rresult[c].err.attempt = rbudget
            /\ TransientAmqp(rresult[c].err)

C7_Witness ==
    \E c \in Callers :
        /\ rpc[c] = "done"
        /\ rallretry[c]
        /\ rbudget = 3
        /\ rattempts[c] = 3
        /\ rresult[c].err.attempt = 3

\* C8: once an attempt has failed with an error that is not a transient AMQP
\* error, the call makes no further attempt and returns that error; when the
\* first attempt fails so, the operation is invoked exactly once.
C8_NoRetryOfNonRetryable ==
    \A c \in Callers :
        rnonretry[c] # 0 =>
            /\ rattempts[c] = rnonretry[c]
            /\ rpc[c] \in {"decide", "done"}
            /\ rpc[c] = "done" =>
                (~rresult[c].ok /\ rresult[c].err.attempt = rnonretry[c])

C8_Witness ==
    \E c \in Callers :
        /\ rpc[c] = "done"
        /\ rnonretry[c] = 1
        /\ rattempts[c] = 1
        /\ rbudget = 3
        /\ rresult[c].err.kind = "Amqp"

----------------------------------------------------------------------------
(* C9, C10: the token cache *)

\* C9: at no time is more than one fetch running for the cache, and a call
\* made while a fetch for its scopes is running never invokes the fetch
\* closure: the calls issued before the result is there share one invocation.
C9_SingleFlight ==
    /\ Cardinality(inflight) <= 1
    /\ \A c \in Callers :
        /\ cjoined[c] => cfetched[c] = 0
        /\ cfetched[c] <= 1
        /\ (cpc[c] = "waiting") => inflight # {}

C9_Witness ==
    \E c, d \in Callers :
        /\ c # d
        /\ cpc[c] = "done" /\ cfetched[c] = 1 /\ cresult[c].ok
        /\ cpc[d] = "done" /\ cjoined[d] /\ cfetched[d] = 0
        /\ cresult[d] = cresult[c]

\* C10: a call made while a token for its scopes is cached and outside the
\* refresh window returns that token and does not invoke the fetch closure.
C10_CacheHit ==
    \A c \in Callers :
        (cpc[c] # "idle" /\ chit[c] # NoToken) =>
            /\ cpc[c] = "done"
            /\ cresult[c] = Returned(TRUE, chit[c], None)
            /\ cfetched[c] = 0
            /\ csent[c] = 0

C10_Witness ==
    \E c \in Callers :
        /\ cpc[c] = "done"
        /\ chit[c] # NoToken
        /\ chit[c].by # c
        /\ cresult[c].token = chit[c]
        /\ cfetched[c] = 0

----------------------------------------------------------------------------
(* C11..C13: the tokens and errors get_token hands out *)

\* The step hands a result to caller c: its call ends in this step.
HandedOut(c) ==
    /\ cpc'[c] = "done"
    /\ cpc[c] # "done" \/ cresult'[c] # cresult[c]

\* C11: every token get_token hands to a caller (a cached token, a token just
\* fetched, a token given to a caller that waited for another caller's fetch)
\* expires strictly later than the moment it is handed out.
C11_TokenNotExpired ==
    [][\A c \in Callers :
          (HandedOut(c) /\ cresult'[c].ok) => cresult'[c].token.expires_on > now']_vars

\* C12: when the fetch fails, get_token returns that error to the caller (and
\* to the callers that waited for this fetch), and the cache is exactly what
\* it was before: no entry removed, replaced or created.
C12_FetchFailureKeepsCache ==
    [][\A c \in Callers :
          (HandedOut(c) /\ ~cresult'[c].ok) =>
              /\ cache' = cache
              /\ cresult'[c].err \in {"Credential", "Io", "HttpResponse"}
              /\ cpc[c] = "http" => cresult'[c].err \in {"Io", "HttpResponse"}
              /\ cpc[c] = "waiting" =>
                    \E d \in inflight : cresult'[c] = cresult'[d]]_vars

\* A caller whose own earlier token is cached and stale fetched again, the
\* token endpoint refused, and the stale token is still cached.
C12_Witness ==
    \E c \in Callers :
        /\ cpc[c] = "done"
        /\ ~cresult[c].ok
        /\ cresult[c].err = "HttpResponse"
        /\ csent[c] = 1
        /\ cache[cscopes[c]] # NoToken
        /\ cache[cscopes[c]].by = c
        /\ \A d \in Callers \ {c} : cpc[d] = "idle"

\* C13: a call of get_token with a number of scopes other than one ends with
\* an error of kind Credential, sends no request to the token endpoint, and
\* nothing is cached for its scopes.
C13_OneScopeOnly ==
    /\ \A c \in Callers :
          (cpc[c] # "idle" /\ Len(cscopes[c]) # 1) =>
              /\ csent[c] = 0
              /\ cpc[c] # "http"
              /\ c \notin inflight
              /\ cpc[c] = "done" =>
                    cresult[c] = Returned(FALSE, NoToken, "Credential")
    /\ \A sc \in ScopeLists : Len(sc) # 1 => cache[sc] = NoToken

\* Calls with no scope and with two scopes were rejected, with a valid
\* certificate and a token for "s1" in the cache.
C13_Witness ==
    /\ cert_ok
    /\ cache[<<"s1">>] # NoToken
    /\ \E c, d \in Callers :
        /\ cpc[c] = "done" /\ cscopes[c] = <<>> /\ cfetched[c] = 1
        /\ cpc[d] = "done" /\ cscopes[d] = <<"s1", "s2">> /\ cfetched[d] = 1

----------------------------------------------------------------------------
(* C14: the SAS token policy *)

\* The SAS token policy runs in this step.
SasPolicyRuns ==
    /\ phase = "down"
    /\ Chain[pos].kind = "SasTokenCredentialPolicy"
    /\ trace' # trace

\* C14: the SAS token policy rewrites the query of the request: with token t
\* and previous query q the new query is t when q is absent or empty, and
\* t, "&", q otherwise, so the previous query is kept unchanged as the suffix.
C14_SasQuery ==
    [][SasPolicyRuns =>
         LET t == Chain[pos].conf
             q == request.query
             n == request'.query
         IN  /\ n.some
             /\ (~q.some \/ q.str = <<>>) => n.str = t
             /\ (q.some /\ q.str # <<>>) =>
                   /\ Len(n.str) = Len(t) + 1 + Len(q.str)
                   /\ SubSeq(n.str, 1, Len(t)) = t
                   /\ n.str[Len(t) + 1] = "&"
                   /\ SubSeq(n.str, Len(t) + 2, Len(n.str)) = q.str
             /\ request'.headers = request.headers]_vars

\* The request with the query "a=1" went once through the policy with the
\* token "sig=abc" and reached the transport with the query "sig=abc&a=1".
C14_Witness ==
    /\ Done
    /\ attempts = 1
    /\ \E i \in 1..Len(pipeline) :
          pipeline[i] = SasTokenCredentialPolicy(<<"s", "i", "g", "=", "a", "b", "c">>)
    /\ request.query =
          QuerySome(<<"s", "i", "g", "=", "a", "b", "c", "&", "a", "=", "1">>)

----------------------------------------------------------------------------
(* C15..C18: the receive race, the retry predicate and the returned error *)

\* The race of an attempt of call c ends in this step.
RaceEnds(c) == rpc[c] = "receive" /\ rpc'[c] # "receive"

\* C15: with a timeout configured the attempt's outcome is that of whichever
\* of the receive and the timer completes first: the timer first gives the Io
\* "timed out" error, the receive first gives the receiver's own result and
\* no timeout error, and what the loser would have produced later changes
\* nothing of the call.  Without a timeout there is no timer and no such error.
C15_ReceiveRace ==
    [][\A c \in Callers :
          /\ (RaceEnds(c) /\ rloser'[c] = "receive") =>
                /\ rtimeout
                /\ rpc'[c] = "decide"
                /\ rerr'[c].kind = "Io" /\ rerr'[c].source = "IoTimedOut"
                /\ rerr'[c].origin = "timer"
                /\ rerr'[c].attempt = rattempts[c]
                /\ rresult'[c] = rresult[c]
          /\ (RaceEnds(c) /\ rloser'[c] # "receive") =>
                /\ rloser'[c] = IF rtimeout THEN "timer" ELSE None
                /\ \/ rpc'[c] = "done" /\ rresult'[c].ok /\ rerr'[c] = rerr[c]
                   \/ /\ rpc'[c] = "decide"
                      /\ rerr'[c].origin = "receive"
                      /\ rerr'[c].source # "IoTimedOut"
          /\ (rloser[c] # None /\ rloser'[c] = None /\ rpc'[c] = rpc[c]) =>
                /\ rresult'[c] = rresult[c]
                /\ rerr'[c] = rerr[c]
                /\ rattempts'[c] = rattempts[c]
          /\ ~rtimeout => rerr'[c].origin # "timer"]_vars

\* A call ended with the timer's error, and one with a delivery after which
\* the timer's completion was dropped.
C15_Witness ==
    /\ rtimeout
    /\ \E c, d \in Callers :
        /\ rpc[c] = "done" /\ ~rresult[c].ok
        /\ rresult[c].err.origin = "timer" /\ rloser[c] = None
        /\ rpc[d] = "done" /\ rresult[d].ok /\ rloser[d] = None
        /\ rattempts[d] = 2

\* C16: should_retry_receive_operation answers true only for an error of
\* kind Amqp whose source is an AmqpError, boxed or not, that
\* should_retry_amqp_error accepts, and false for every other shape: another
\* kind, no source, a source of another type, an AmqpError not accepted.
C16_RetryPredicate ==
    \A c \in Callers :
        rerr[c] # NoError =>
            /\ should_retry_receive_operation(rerr[c]) = TransientAmqp(rerr[c])
            /\ rerr[c].kind # "Amqp" => ~should_retry_receive_operation(rerr[c])
            /\ rerr[c].source \notin {"BoxedAmqpError", "AmqpError"} =>
                  ~should_retry_receive_operation(rerr[c])
            /\ ~rerr[c].transient => ~should_retry_receive_operation(rerr[c])

\* The predicate accepted an unboxed transient AmqpError (the call went on to
\* a second attempt) and refused one under another kind (the call ended after
\* one attempt with attempts left).
C16_Witness ==
    \E c, d \in Callers :
        /\ rattempts[c] = 2 /\ rpc[c] = "ensure"
        /\ rerr[c].kind = "Amqp" /\ rerr[c].source = "AmqpError"
        /\ rpc[d] = "done" /\ rattempts[d] = 1 /\ rbudget > 1
        /\ rresult[d].err.kind = "Other" /\ rresult[d].err.source = "AmqpError"
        /\ rresult[d].err.transient

\* C17, as stated: a call that ended with the timer's error had used up its
\* attempts, because a timeout with attempts left leads to another attempt.
C17_Original ==
    \A c \in Callers :
        (rpc[c] = "done" /\ ~rresult[c].ok /\ rresult[c].err.origin = "timer")
            => rattempts[c] >= rbudget

\* C17, amended: the timer's error goes through the same retry predicate as
\* every other error and, being of kind Io, is refused by it: the attempt
\* that timed out is the last one of the call, which returns that error
\* whatever number of attempts is left.
C17_TimeoutNotRetried ==
    \A c \in Callers :
        rerr[c].origin = "timer" =>
            /\ rpc[c] \in {"decide", "done"}
            /\ rerr[c].attempt = rattempts[c]
            /\ rpc[c] = "done" => rresult[c] = [ok |-> FALSE, err |-> rerr[c]]

\* A call whose first attempt timed out ended with attempts left.
C17_Witness ==
    \E c \in Callers :
        /\ rpc[c] = "done"
        /\ rresult[c].err.origin = "timer"
        /\ rattempts[c] = 1
        /\ rbudget > 1

\* C18: a call of receive_delivery that ends without a delivery returns the
\* error of its last attempt, as that attempt produced it: never a success,
\* never the error of an earlier attempt, never another error.
C18_LastErrorReturned ==
    \A c \in Callers :
        (rpc[c] = "done" /\ ~rresult[c].ok) =>
            /\ rresult[c].err # NoError
            /\ rresult[c].err = rerr[c]
            /\ rresult[c].err.attempt = rattempts[c]
            /\ rresult[c].err.origin \in {"ensure", "receive", "timer"}
            /\ rresult[c].err.origin = "ensure" => rhandle[c] < rattempts[c]
            /\ rresult[c].err.origin # "ensure" => rhandle[c] = rattempts[c]

\* A call ended with the error of its third attempt, after two attempts that
\* failed with transient errors.
C18_Witness ==
    \E c \in Callers :
        /\ rpc[c] = "done"
        /\ ~rresult[c].ok
        /\ rattempts[c] = 3
        /\ rresult[c].err.attempt = 3
        /\ rresult[c].err.origin = "receive"

----------------------------------------------------------------------------
(* C19, C20: the pipeline after its construction *)

\* C19: once Pipeline::new has returned, no send and no clone changes the
\* policy sequence: the first handle and every clone hold the sequence that
\* was assembled, and a send through any handle walks that sequence.
C19_Immutable ==
    [][phase # "unbuilt" =>
         /\ pipeline' = pipeline
         /\ \A i \in 1..Len(clones') : clones'[i] = pipeline
         /\ Chain' = pipeline
         /\ \A i \in 1..Len(trace') : trace'[i].policy = pipeline[trace'[i].idx]]_vars

\* A send through the clone of a clone ended after two attempts.
C19_Witness ==
    /\ Done
    /\ Len(clones) = 2
    /\ via = 2
    /\ attempts = 2
    /\ Len(pipeline) = 6

\* C20: in every pipeline built by Pipeline::new the transport policy is the
\* last policy and is nowhere else, and every other policy runs with at least
\* one policy after it, on the first attempt and on every retry: no policy's
\* `next[0]` ever indexes an empty list.
C20_NextNeverEmpty ==
    /\ phase # "panicked"
    /\ phase # "unbuilt" =>
          /\ Len(pipeline) > 0
          /\ \A i \in 1..Len(pipeline) :
                (pipeline[i].kind = "TransportPolicy") <=> (i = Len(pipeline))
    /\ phase = "down" =>
          /\ pos \in 1..Len(Chain)
          /\ Chain[pos].kind # "TransportPolicy" => pos < Len(Chain)

\* On the second attempt the SAS token policy, the last policy before the
\* transport, is about to run and to delegate to next[0].
C20_Witness ==
    /\ phase = "down"
    /\ attempts = 2
    /\ Chain[pos].kind = "SasTokenCredentialPolicy"
    /\ pos = Len(Chain) - 1

----------------------------------------------------------------------------
(* C21..C30 *)

\* C23: every attempt of receive_delivery calls ensure_receiver before it
\* receives, and receives on the handle that call returned, never on the
\* handle of an earlier attempt; an attempt whose ensure_receiver failed
\* issues no receive and hands that error to the retry decision.
C23_EnsureEachAttempt ==
    [][\A c \in Callers :
          /\ rpc'[c] = "receive" =>
                /\ rhandle'[c] = rattempts'[c]
                /\ rpc[c] \in {"ensure", "receive"}
          /\ (rattempts'[c] # rattempts[c] /\ rattempts'[c] > 0) =>
                /\ rpc'[c] = "ensure"
                /\ rhandle'[c] < rattempts'[c]
          /\ (rpc[c] = "ensure" /\ rpc'[c] # "ensure") =>
                \/ rpc'[c] = "receive"
                \/ /\ rpc'[c] = "decide"
                   /\ rerr'[c].origin = "ensure"
                   /\ rerr'[c].attempt = rattempts[c]
                   /\ rhandle'[c] < rattempts[c]]_vars

\* In its third attempt a call receives on the handle of that attempt, after
\* a second attempt whose ensure_receiver failed.
C23_Witness ==
    \E c \in Callers :
        /\ rpc[c] = "receive"
        /\ rattempts[c] = 3
        /\ rhandle[c] = 3
        /\ rerr[c].origin = "ensure"
        /\ rerr[c].attempt = 2

\* The policies Pipeline::new put behind the caller's per-call list.
AddedPerCall == DropFirst(built, Len(args.per_call_policies))

\* C25: in the per-call segment Pipeline::new assembles, the caller's policies
\* come first in their own order, then the default correlation-id policy if
\* it was added, then the user-agent policy if it was added; the pipeline
\* starts with that segment.
C25_PerCallOrder ==
    phase # "unbuilt" =>
        /\ IsPrefix(args.per_call_policies, built)
        /\ Len(AddedPerCall) <= 2
        /\ \A i \in 1..Len(AddedPerCall) : AddedPerCall[i] \in DefaultsOf(args)
        /\ \A i, j \in 1..Len(AddedPerCall) :
              i < j => /\ AddedPerCall[i] = ClientRequestIdPolicyDefault
                       /\ AddedPerCall[j].kind = "UserAgentPolicy"
        /\ IsPrefix(built, pipeline)

\* Two caller policies, then both defaults.
C25_Witness ==
    /\ phase # "unbuilt"
    /\ Len(args.per_call_policies) = 2
    /\ Len(AddedPerCall) = 2
    /\ trace # <<>>

\* The places of the pipeline that hold a SAS token policy.
SasPlaces ==
    {i \in 1..Len(pipeline) : pipeline[i].kind = "SasTokenCredentialPolicy"}

\* How often the string t occurs in the string s.
Occurrences(t, s) ==
    Cardinality({i \in 1..(Len(s) - Len(t) + 1) :
                    SubSeq(s, i, i + Len(t) - 1) = t})

\* C29: with one SAS token policy in the pipeline, the request that reaches
\* the transport carries the token exactly once in its query, on the first
\* attempt and on every later attempt of a retried send.
C29_TokenOnce ==
    (/\ phase = "down"
     /\ Chain[pos].kind = "TransportPolicy"
     /\ Cardinality(SasPlaces) = 1) =>
        \A i \in SasPlaces :
            /\ request.query.some
            /\ Occurrences(pipeline[i].conf, request.query.str) = 1

\* The SAS token policy gets its successor's result in this step.
SasPolicyReturns ==
    /\ phase = "up"
    /\ Chain[pos].kind = "SasTokenCredentialPolicy"
    /\ trace' # trace

\* C26: every run of the SAS token policy rewrites the query and then calls
\* the next policy, once, with the policies after that one; it does not fail
\* by itself, changes nothing of the request but the query, and hands its
\* successor's result on as it got it.
C26_SasDelegates ==
    [][/\ SasPolicyRuns =>
            /\ phase' = "down"
            /\ pos' = pos + 1
            /\ pos' <= Len(Chain)
            /\ request'.query.some
            /\ request'.headers = request.headers
            /\ outcome' = outcome
            /\ attempts' = attempts
            /\ trace' = Append(trace, [ev |-> "enter", idx |-> pos,
                                       policy |-> Chain[pos]])
       /\ SasPolicyReturns =>
            /\ outcome' = outcome
            /\ request' = request
            /\ attempts' = attempts
            /\ pos' = pos - 1
            /\ phase' \in {"up", "idle"}
       /\ \A i \in SasPlaces :
            EnterCount(i + 1)' =
                IF phase' = "down" /\ pos' = i + 1
                THEN EnterCount(i)' - 1 ELSE EnterCount(i)']_vars

\* A send ended with the transient failure of its second attempt, which the
\* SAS token policy in the per-try segment handed up unchanged both times.
C26_Witness ==
    /\ Done
    /\ attempts = 2
    /\ outcome = "Transient"
    /\ \E i \in SasPlaces :
          /\ pipeline[i + 1].kind = "TransportPolicy"
          /\ EnterCount(i) = 2
          /\ EnterCount(i + 1) = 2

\* C22: options made from TokenCredentialOptions while the environment
\* variable is unset report send_certificate_chain() = true, and the flag of
\* options already made does not follow later changes of the environment.
C22_SendChainDefault ==
    /\ \A o \in OptionHolders :
          (copts[o].how = "from" /\ ~copts[o].set /\ ~copts[o].env_seen.some)
              => copts[o].send_certificate_chain
    /\ \A o \in OptionHolders :
          (copts[o].how = "from" /\ ~copts[o].set) =>
              copts[o].send_certificate_chain
                 = (IF copts[o].env_seen.some
                    THEN copts[o].env_seen.str \in
                            { <<"1">>, <<"t", "r", "u", "e">>,
                              <<"T", "r", "u", "e">>, <<"T", "R", "U", "E">> }
                    ELSE TRUE)

\* C21: a call of any receiver operation other than receive_delivery ends in
\* the panic of unimplemented!(): it returns nothing, least of all Ok, and
\* neither the connection nor the retry engine is reached.
C21_UnimplementedFailFast ==
    \A c \in Callers :
        /\ rop[c] \in UnimplementedOps =>
              /\ rpc[c] = "panicked"
              /\ ~rresult[c].ok
              /\ rattempts[c] = 0
              /\ rhandle[c] = 0
              /\ rerr[c] = NoError
        /\ rpc[c] = "panicked" => rop[c] \in UnimplementedOps

\* One caller's accept_delivery panicked; the other caller's receive_delivery
\* is in its second attempt.
C21_Witness ==
    \E c, d \in Callers :
        /\ rop[c] = "accept_delivery"
        /\ rpc[c] = "panicked"
        /\ rop[d] = "receive_delivery"
        /\ rpc[d] = "receive"
        /\ rattempts[d] = 2

\* C27: an operation the retry engine runs without a predicate is invoked
\* once, whatever its error and whatever budget is left, and that error is
\* returned; receive_delivery always hands the engine its predicate.
C27_NoPredicateNoRetry ==
    \A c \in Callers :
        /\ rop[c] = "operation" =>
              /\ ~rpred[c]
              /\ rattempts[c] = 1
              /\ (rpc[c] = "done" /\ ~rresult[c].ok) =>
                    /\ rresult[c].err = rerr[c]
                    /\ rresult[c].err # NoError
                    /\ rresult[c].err.attempt = 1
        /\ rop[c] = "receive_delivery" => rpred[c]

\* Without a predicate the operation ended after one attempt with a transient
\* AMQP error, with attempts left.
C27_Witness ==
    \E c \in Callers :
        /\ rop[c] = "operation"
        /\ rpc[c] = "done"
        /\ TransientAmqp(rresult[c].err)
        /\ rattempts[c] = 1
        /\ rbudget > 1

\* Caller d takes a step of its call.
Acts(d) ==
    \/ rpc'[d] # rpc[d]
    \/ rattempts'[d] # rattempts[d]
    \/ rerr'[d] # rerr[d]
    \/ rresult'[d] # rresult[d]

InCall(c) == rpc[c] \in {"ensure", "receive", "decide"}

\* C30: with a timeout configured every call of receive_delivery returns in
\* the end, even if no receive ever completes, as long as ensure_receiver
\* returns each time; with no timeout an attempt's receive ends only by the
\* receive itself and no timeout error is ever produced.
C30_Terminates ==
    /\ \A c \in Callers : (rtimeout /\ InCall(c)) ~> (rpc[c] = "done")
    /\ [][\A c \in Callers :
            (~rtimeout /\ RaceEnds(c)) =>
                /\ rloser'[c] = None
                /\ rerr'[c].origin # "timer"
                /\ rresult'[c].ok \/ rerr'[c].origin = "receive"]_vars

\* A call ended by the timer after an attempt that a transient receive error
\* had ended.
C30_Witness ==
    \E c \in Callers :
        /\ rtimeout
        /\ rpc[c] = "done"
        /\ rattempts[c] = 2
        /\ rresult[c].err.origin = "timer"

\* The rejections of the request recorded in the trace of the send.
Rejections == { j \in 1..Len(trace) : trace[j].ev = "fail" }

\* C24: when a per-call policy rejects the request before delegating, nothing
\* behind it is invoked for that send: no policy further down the list is
\* entered, so neither the retry policy, nor a per-retry policy, nor the
\* transport; no attempt is counted and nothing is retried; the policies
\* before it only hand the error back, and the send returns that error.
C24_PerCallFailureBailsOut ==
    \A j \in Rejections :
        IsPerCallPolicy(trace[j].policy) =>
            /\ Rejections = {j}
            /\ attempts = 0
            /\ outcome = "PolicyError"
            /\ \A k \in 1..Len(trace) :
                 /\ trace[k].idx <= trace[j].idx
                 /\ trace[k].policy.kind \notin
                        {"RetryPolicy", "CustomHeadersPolicy", "TransportPolicy"}
                 /\ \A i \in 1..Len(Chain) :
                        Chain[i].kind = "RetryPolicy" => trace[k].idx < i
                 /\ k > j => trace[k].ev = "exit"
            /\ Done => Len(trace) = 2 * trace[j].idx

C24_Witness ==
    \E j \in Rejections :
        /\ IsPerCallPolicy(trace[j].policy)
        /\ trace[j].idx = 2
        /\ Done
        /\ outcome = "PolicyError"
        /\ \E i \in 1..Len(Chain) :
             /\ i > trace[j].idx
             /\ Chain[i].kind = "SasTokenCredentialPolicy"

====
